---- MODULE Spec2Model ----
(***************************************************************************)
(* Model of gurk's runtime core, src/main.rs: run_single_threaded, the     *)
(* tasks it spawns (input adapter, reconnector, deferred-redraw timers),   *)
(* the bounded event channel between them and the terminal lifecycle.      *)
(*                                                                         *)
(* Time is counted in milliseconds.  The only instant the program keeps is *)
(* last_render_at, and it is only ever read through .elapsed(), so the     *)
(* model keeps that elapsed time (saturating at MaxElapsed, beyond which   *)
(* the frame limiter behaves the same) and each timer's remaining sleep.   *)
(***************************************************************************)
EXTENDS Integers, Sequences, FiniteSets, TLC

\* ---------------------------------------------------------------- constants
TARGET_FPS == 144
\* Duration::from_millis(1000 / TARGET_FPS): u64 division, whole milliseconds
FRAME_BUDGET == 1000 \div TARGET_FPS
\* tokio::sync::mpsc::channel::<Event>(100)
CHANNEL_CAPACITY == 100
\* tokio::time::sleep(Duration::from_secs(10))
BACKOFF_SECS == 10

\* ------------------------------------------------------------------- bounds
\* elapsed time saturates here (must exceed FRAME_BUDGET)
MaxElapsed == 9
\* milliseconds that pass in one step of the clock
TickMs == 3
\* notifications the input source and messages the streams yield in one run,
\* taken together
MaxEvents == 2
\* numbered events (all but Redraw) the loop takes from the channel in one run
MaxReceived == 3
\* distinct application states the update function can return
MaxApp == 2
\* the longest time (ms) after the last render at which the frame limiter is
\* examined on its own
MaxCheckAt == 12

VARIABLES
    m_pc,              \* position of run_single_threaded
    result,            \* what run_single_threaded returns ("none" while running)
    raw_mode,          \* terminal: raw mode enabled
    alt_screen,        \* terminal: alternate screen entered
    mouse_capture,     \* terminal: mouse capture enabled
    app,               \* the application state (opaque, an index)
    shown,             \* the application state last drawn (0: nothing drawn)
    event,             \* the event rx.recv() returned in this iteration
    elapsed,           \* last_render_at.elapsed(), ms, saturating
    is_render_spawned, \* the AtomicBool
    render_skipped,    \* history: a frame was skipped since the last draw
    chan,              \* the mpsc channel's queue
    timers,            \* the deferred-redraw tasks alive
    in_pc,             \* input adapter task
    in_event,          \* the event it is sending
    in_seen,           \* notifications read so far
    in_note,           \* history: the notification read last, until the
                       \* event made of it is sent
    rc_pc,             \* reconnector task
    rc_online,         \* what the last is_online() returned
    rc_slept,          \* seconds asked of the sleep it is in (0: not sleeping)
    rc_event,          \* the event it is sending
    rc_yielded,        \* messages the current stream yielded
    rc_emitted,        \* Message events sent for the current stream
    rc_quits,          \* history: Quit events the reconnector sent
    msgs,              \* messages yielded by all streams so far
    sent,              \* history: events each producer put into the channel
    rcvd,              \* history: events of each producer the loop received
    stalled            \* history: events whose send was suspended on a full
                       \* channel when the loop took an event from it

vars == << m_pc, result, raw_mode, alt_screen, mouse_capture,
           app, shown, event, elapsed, is_render_spawned, render_skipped,
           chan, timers, in_pc, in_event, in_seen, in_note,
           rc_pc, rc_online, rc_slept, rc_event, rc_yielded, rc_emitted,
           rc_quits, msgs, sent, rcvd, stalled >>

term_vars == << raw_mode, alt_screen, mouse_capture >>
in_vars   == << in_pc, in_event, in_seen, in_note >>
rc_vars   == << rc_pc, rc_online, rc_slept, rc_event, rc_yielded, rc_emitted,
                rc_quits, msgs >>
loop_vars == << app, shown, event, elapsed, is_render_spawned, render_skipped >>

\* ------------------------------------------------------------------- events
Producers == {"input", "rc"}

\* app::Event as used by main.rs; n numbers the events of one producer
Ev(kind, n, err) == [kind |-> kind, n |-> n, err |-> err]
NoEvent == Ev("none", 0, FALSE)

\* which task constructs which variant
Src(e) ==
    CASE e.kind \in {"Input", "Resize", "Click"} -> "input"
      [] e.kind \in {"Message", "Quit"} -> "rc"
      [] OTHER -> "timer"

Min(a, b) == IF a < b THEN a ELSE b
Max(a, b) == IF a > b THEN a ELSE b

\* ------------------------------------------------------------------ channel
\* Sender::send completes only when the queue has a free slot
ChanHasRoom(q) == Len(q) < CHANNEL_CAPACITY
\* (a channel that hands out the newest event first)
ChanPush_front(q, e) == << e >> \o q
\* ... and then puts the event at the back
ChanPush(q, e) == Append(q, e)
\* (a send that gives up on a full channel, as try_send would, and loses e)
Send_drop(q, e) == IF ChanHasRoom(q) THEN {ChanPush(q, e)} ELSE {q}
\* tx.send(e).await on a channel whose receiver is alive: the queues it can
\* leave behind; none while the queue is full (the sender stays suspended)
Send(q, e) == IF ChanHasRoom(q) THEN {ChanPush(q, e)} ELSE {}
\* Receiver::recv takes the event at the front
ChanFront(q) == Head(q)
ChanPop(q) == Tail(q)

\* rx is a local of run_single_threaded: dropped when the function is left
RxDropped == m_pc \in {"drop_guard", "returned", "panicked"}

\* Sender handles alive: tx of run_single_threaded itself, and the clones
\* moved into the tasks
Senders ==
    (IF RxDropped THEN 0 ELSE 1)
    + (IF in_pc \in {"next", "send"} THEN 1 ELSE 0)
    + (IF rc_pc \in {"none", "returned", "dropped"} THEN 0 ELSE 1)
    + Len(timers)

Counted(e) == Src(e) \in Producers
Bump(f, e) == IF Counted(e) THEN [f EXCEPT ![Src(e)] = @ + 1] ELSE f

\* --------------------------------------------------------------------- Init
\* before the first statement of run_single_threaded
Init ==
    /\ m_pc = "try_new"
    /\ result = "none"
    /\ raw_mode = FALSE /\ alt_screen = FALSE /\ mouse_capture = FALSE
    /\ app = 1 /\ shown = 0 /\ event = NoEvent
    /\ elapsed = 0 /\ is_render_spawned = FALSE /\ render_skipped = FALSE
    /\ chan = << >> /\ timers = << >>
    /\ in_pc = "none" /\ in_event = NoEvent /\ in_seen = 0 /\ in_note = "none"
    /\ rc_pc = "none" /\ rc_online = FALSE /\ rc_slept = 0 /\ rc_event = NoEvent
    /\ rc_yielded = 0 /\ rc_emitted = 0 /\ rc_quits = 0 /\ msgs = 0
    /\ sent = [p \in Producers |-> 0]
    /\ rcvd = [p \in Producers |-> 0]
    /\ stalled = {}

\* ------------------------------------------------------------------ startup
\* Leaving run_single_threaded (return, `?`, or unwinding from a panic) drops
\* its locals, the scope guard last: app, last_render_at, and rx with the
\* events still queued.  The LocalSet no longer polls the reconnector.
Leave(res) ==
    /\ m_pc' = "drop_guard"
    /\ result' = res
    /\ app' = 0 /\ shown' = 0 /\ event' = NoEvent
    /\ elapsed' = 0 /\ render_skipped' = FALSE
    /\ chan' = << >>
    /\ rc_pc' = IF rc_pc = "none" THEN "none" ELSE "dropped"
    /\ rc_event' = NoEvent /\ rc_online' = FALSE /\ rc_slept' = 0
    /\ rc_yielded' = 0 /\ rc_emitted' = 0
    /\ UNCHANGED << rc_quits, msgs >>

\* what an action that stays in the function leaves alone
Stay == UNCHANGED << app, shown, event, elapsed, render_skipped, chan, rc_vars >>

\* let mut app = App::try_new(relink).await?;
TryNew ==
    /\ m_pc = "try_new"
    /\ \/ m_pc' = "enable_raw" /\ result' = result
       \/ m_pc' = "returned" /\ result' = "Err_try_new"
    /\ UNCHANGED << term_vars, loop_vars, chan, timers, in_vars, rc_vars, sent, rcvd, stalled >>

\* enable_raw_mode()?; the guard is registered only after it succeeded
EnableRawMode ==
    /\ m_pc = "enable_raw"
    /\ \/ raw_mode' = TRUE /\ m_pc' = "enter" /\ result' = result
       \/ raw_mode' = raw_mode /\ m_pc' = "returned" /\ result' = "Err_raw"
    /\ UNCHANGED << alt_screen, mouse_capture, loop_vars, chan, timers, in_vars,
                    rc_vars, sent, rcvd, stalled >>

\* execute!(stdout, EnterAlternateScreen, EnableMouseCapture)?: the two
\* commands are written in this order, a failure stops at the failing one
EnterScreen ==
    /\ m_pc = "enter"
    /\ \/ /\ alt_screen' = TRUE /\ mouse_capture' = TRUE
          /\ m_pc' = "spawn_input" /\ result' = result
          /\ Stay
       \/ /\ alt_screen' \in BOOLEAN /\ mouse_capture' = FALSE
          /\ Leave("Err_enter")
    /\ UNCHANGED << raw_mode, is_render_spawned, timers, in_vars, sent, rcvd, stalled >>

\* the channel is created and the input adapter spawned
SpawnInput ==
    /\ m_pc = "spawn_input"
    /\ in_pc' = "next"
    /\ m_pc' = "term_new"
    /\ UNCHANGED << result, term_vars, loop_vars, chan, timers, in_event, in_seen,
                    in_note, rc_vars, sent, rcvd, stalled >>

\* let mut terminal = Terminal::new(backend)?;
TerminalNew ==
    /\ m_pc = "term_new"
    /\ \/ m_pc' = "spawn_rc" /\ result' = result /\ Stay
       \/ Leave("Err_term_new")
    /\ UNCHANGED << term_vars, is_render_spawned, timers, in_vars, sent, rcvd, stalled >>

\* tokio::task::spawn_local(reconnector)
SpawnReconnector ==
    /\ m_pc = "spawn_rc"
    /\ rc_pc' = "probe"
    /\ m_pc' = "clear"
    /\ UNCHANGED << result, term_vars, loop_vars, chan, timers, in_vars, rc_online,
                    rc_slept, rc_event, rc_yielded, rc_emitted, rc_quits, msgs,
                    sent, rcvd, stalled >>

\* terminal.clear()?; last_render_at = Instant::now(); the flag; env
TerminalClear ==
    /\ m_pc = "clear"
    /\ \/ /\ m_pc' = "check" /\ result' = result /\ elapsed' = 0
          /\ UNCHANGED << app, shown, event, render_skipped, chan, rc_vars >>
       \/ Leave("Err_clear")
    /\ UNCHANGED << term_vars, is_render_spawned, timers, in_vars, sent, rcvd, stalled >>

\* ---------------------------------------------------------------- main loop
\* (a limiter that measures against half the budget)
left_frame_budget_half(el) ==
    IF el < FRAME_BUDGET \div 2 THEN {FRAME_BUDGET \div 2 - el} ELSE {}
\* FRAME_BUDGET.checked_sub(elapsed): Some(d) as {d}, None as {}
left_frame_budget(el) == IF el <= FRAME_BUDGET THEN {FRAME_BUDGET - el} ELSE {}

\* the task of tokio::spawn(async move { sleep(budget).await; ... }).  The
\* sleep begins after the instant at which elapsed was read and lasts at least
\* budget (tokio rounds a deadline up to its next millisecond), so it is over
\* strictly later than budget after the check: in whole milliseconds, not
\* before budget + 1.
NewTimer(budget) == [pc |-> "sleep", left |-> budget + 1]

\* (a limiter that spawns a timer for every skipped frame, whatever the flag)
FrameCheck_unflagged ==
    /\ m_pc = "check"
    /\ LET left == left_frame_budget(elapsed) IN
       IF left # {}
       THEN /\ render_skipped' = TRUE
            /\ is_render_spawned' = TRUE
            /\ timers' = Append(timers, NewTimer(CHOOSE b \in left : TRUE))
            /\ m_pc' = "recv"
       ELSE /\ m_pc' = "draw"
            /\ UNCHANGED << render_skipped, is_render_spawned, timers >>
    /\ UNCHANGED << result, term_vars, app, shown, event, elapsed, chan, in_vars,
                    rc_vars, sent, rcvd, stalled >>
\* the head of the loop: skip the frame (and make sure a Redraw is pending)
\* or go on to draw
FrameCheck ==
    /\ m_pc = "check"
    /\ LET left == left_frame_budget(elapsed) IN
       IF left # {}
       THEN /\ render_skipped' = TRUE
            /\ IF ~is_render_spawned
               THEN /\ is_render_spawned' = TRUE
                    /\ timers' = Append(timers, NewTimer(CHOOSE b \in left : TRUE))
               ELSE UNCHANGED << is_render_spawned, timers >>
            /\ m_pc' = "recv"
       ELSE /\ m_pc' = "draw"
            /\ UNCHANGED << render_skipped, is_render_spawned, timers >>
    /\ UNCHANGED << result, term_vars, app, shown, event, elapsed, chan, in_vars,
                    rc_vars, sent, rcvd, stalled >>

\* env.terminal.draw(|f| ui::draw(f, &mut app))?; last_render_at = Instant::now();
Draw ==
    /\ m_pc = "draw"
    /\ \/ /\ shown' = app /\ elapsed' = 0 /\ render_skipped' = FALSE
          /\ m_pc' = "recv" /\ result' = result
          /\ UNCHANGED << app, event, chan, rc_vars >>
       \/ Leave("Err_draw")
    /\ UNCHANGED << term_vars, is_render_spawned, timers, in_vars, sent, rcvd, stalled >>

\* the events whose send is awaiting a free slot or about to be made
Pending ==
    (IF in_pc = "send" THEN {in_event} ELSE {})
    \cup (IF rc_pc \in {"send_msg", "send_quit"} THEN {rc_event} ELSE {})
    \cup {Ev("Redraw", 0, FALSE) : i \in {j \in DOMAIN timers :
                                    timers[j].pc = "sleep" /\ timers[j].left = 0}}

\* rx.recv().await: the front event; None once the queue is empty and no
\* Sender is left; suspended otherwise
Recv ==
    /\ m_pc = "recv"
    /\ IF chan # << >>
       THEN /\ Counted(ChanFront(chan)) => rcvd["input"] + rcvd["rc"] < MaxReceived
            /\ event' = ChanFront(chan)
            /\ chan' = ChanPop(chan)
            /\ rcvd' = Bump(rcvd, ChanFront(chan))
            /\ stalled' = IF ChanHasRoom(chan) THEN stalled ELSE stalled \cup Pending
            /\ m_pc' = "update"
       ELSE /\ Senders = 0
            /\ m_pc' = "leave"
            /\ UNCHANGED << event, chan, rcvd, stalled >>
    /\ UNCHANGED << result, term_vars, app, shown, elapsed, is_render_spawned,
                    render_skipped, timers, in_vars, rc_vars, sent >>

\* what update returns: Ok(Some(next_app)), Ok(None) or Err(e)
Some(a) == [tag |-> "Some", app |-> a, err |-> "none"]
None == [tag |-> "None", app |-> 0, err |-> "none"]
Err(e) == [tag |-> "Err", app |-> 0, err |-> e]

\* update on a Quit event: the loop is to break, and an error the event
\* carries is the failure reported
update_Quit(e) == IF e.err THEN Err("Err_quit") ELSE None

\* update(app, event, &mut env).await: an external function; on any other
\* event it may return any value of its type
update(a, e) ==
    IF e.kind = "Quit"
    THEN {update_Quit(e)}
    ELSE {Some(x) : x \in 1..MaxApp} \cup {None, Err("Err_update")}

\* (a loop that treats an error of update as the end of the loop)
Dispatch_swallow(r, a) ==
    CASE r.tag = "Some" -> [pc |-> "check", app |-> r.app, result |-> "none"]
      [] OTHER -> [pc |-> "leave", app |-> a, result |-> "none"]
\* if let Some(next_app) = update(..).await? { app = next_app } else { break }
Dispatch(r, a) ==
    CASE r.tag = "Some" -> [pc |-> "check", app |-> r.app, result |-> "none"]
      [] r.tag = "None" -> [pc |-> "leave", app |-> a, result |-> "none"]
      [] r.tag = "Err" -> [pc |-> "drop_guard", app |-> a, result |-> r.err]

Update ==
    /\ m_pc = "update"
    /\ \E r \in update(app, event) :
         LET d == Dispatch(r, app) IN
         IF d.pc = "drop_guard"
         THEN Leave(d.result)
         ELSE /\ m_pc' = d.pc
              /\ app' = d.app
              /\ result' = d.result
              /\ event' = NoEvent
              /\ UNCHANGED << shown, elapsed, render_skipped, chan, rc_vars >>
    /\ UNCHANGED << term_vars, is_render_spawned, timers, in_vars, sent, rcvd, stalled >>

\* ----------------------------------------------------------------- shutdown
\* execute!(backend, LeaveAlternateScreen, DisableMouseCapture).unwrap()
LeaveScreen ==
    /\ m_pc = "leave"
    /\ \/ /\ alt_screen' = FALSE /\ mouse_capture' = FALSE
          /\ m_pc' = "show_cursor" /\ result' = result
          /\ Stay
       \/ /\ alt_screen' \in {alt_screen, FALSE}
          /\ mouse_capture' = mouse_capture
          /\ Leave("panic")
    /\ UNCHANGED << raw_mode, is_render_spawned, timers, in_vars, sent, rcvd, stalled >>

\* env.terminal.show_cursor().unwrap(); Ok(())
ShowCursor ==
    /\ m_pc = "show_cursor"
    /\ \/ Leave("Ok")
       \/ Leave("panic")
    /\ UNCHANGED << term_vars, is_render_spawned, timers, in_vars, sent, rcvd, stalled >>

\* the scope guard, run when the function is left by return or by unwinding:
\* disable_raw_mode().unwrap()
DropGuard ==
    /\ m_pc = "drop_guard"
    /\ \/ /\ raw_mode' = FALSE
          /\ m_pc' = IF result = "panic" THEN "panicked" ELSE "returned"
          /\ result' = result
       \/ /\ raw_mode' = raw_mode
          /\ m_pc' = "panicked"
          /\ result' = "panic"
    /\ UNCHANGED << alt_screen, mouse_capture, loop_vars, chan, timers, in_vars,
                    rc_vars, sent, rcvd, stalled >>

\* ------------------------------------------------------------ input adapter
\* what reader.next().await yields: Some(Ok(Key)), Some(Ok(Resize)),
\* Some(Ok(Mouse)), Some(Ok(anything else)), Some(Err(_))
Notifications == {"Key", "Resize", "Mouse", "Other", "Error"}

\* (an adapter that takes an error of the source for a key press)
Translate_error_as_key(nt, n) ==
    CASE nt \in {"Key", "Error"} -> {Ev("Input", n, FALSE)}
      [] nt = "Resize" -> {Ev("Resize", n, FALSE)}
      [] nt = "Mouse" -> {Ev("Click", n, FALSE)}
      [] OTHER -> {}
\* the match of the adapter: the event to send, if any
Translate(nt, n) ==
    CASE nt = "Key" -> {Ev("Input", n, FALSE)}
      [] nt = "Resize" -> {Ev("Resize", n, FALSE)}
      [] nt = "Mouse" -> {Ev("Click", n, FALSE)}
      [] OTHER -> {}

\* while let Some(event) = reader.next().await { match event { ... } }
InputNext ==
    /\ in_pc = "next"
    /\ \/ \E nt \in Notifications :
            LET t == Translate(nt, sent["input"] + 1) IN
            /\ in_seen + msgs < MaxEvents
            /\ in_seen' = in_seen + 1
            /\ in_note' = nt
            /\ IF t = {}
               THEN in_pc' = "next" /\ in_event' = NoEvent
               ELSE in_pc' = "send" /\ in_event' = CHOOSE e \in t : TRUE
       \/ /\ in_pc' = "ended"
          /\ UNCHANGED << in_event, in_seen, in_note >>
    /\ UNCHANGED << m_pc, result, term_vars, loop_vars, chan, timers, rc_vars,
                    sent, rcvd, stalled >>

\* (an adapter that ignores the result of the send, `let _ = tx.send(..).await`)
InputSend_swallow ==
    /\ in_pc = "send"
    /\ IF RxDropped
       THEN UNCHANGED << chan, sent >>
       ELSE /\ \E q \in Send(chan, in_event) : chan' = q
            /\ sent' = Bump(sent, in_event)
    /\ in_pc' = "next"
    /\ in_event' = NoEvent
    /\ in_note' = "none"
    /\ UNCHANGED << m_pc, result, term_vars, loop_vars, timers, in_seen, rc_vars,
                    rcvd, stalled >>

\* tx.send(..).await.unwrap()
InputSend ==
    /\ in_pc = "send"
    /\ IF RxDropped
       THEN /\ in_pc' = "panicked"
            /\ UNCHANGED << chan, sent >>
       ELSE /\ \E q \in Send(chan, in_event) : chan' = q
            /\ sent' = Bump(sent, in_event)
            /\ in_pc' = "next"
    /\ in_event' = NoEvent
    /\ in_note' = "none"
    /\ UNCHANGED << m_pc, result, term_vars, loop_vars, timers, in_seen, rc_vars,
                    rcvd, stalled >>

\* ------------------------------------------------------------ redraw timers
Remove(q, i) == SubSeq(q, 1, i - 1) \o SubSeq(q, i + 1, Len(q))

\* (a timer that clears the flag and ends without sending its Redraw)
TimerSend_lost(i) ==
    /\ timers[i].pc = "sleep"
    /\ timers[i].left = 0
    /\ timers' = Remove(timers, i)
    /\ is_render_spawned' = FALSE
    /\ UNCHANGED << m_pc, result, term_vars, app, shown, event, elapsed,
                    render_skipped, chan, in_vars, rc_vars, sent, rcvd, stalled >>

\* tokio::time::sleep(budget) is over; tx.send(Event::Redraw).await.expect(..)
TimerSend(i) ==
    /\ timers[i].pc = "sleep"
    /\ timers[i].left = 0
    /\ IF RxDropped
       THEN /\ timers' = Remove(timers, i)
            /\ chan' = chan
       ELSE /\ \E q \in Send(chan, Ev("Redraw", 0, FALSE)) : chan' = q
            /\ timers' = [timers EXCEPT ![i].pc = "sent"]
    /\ UNCHANGED << m_pc, result, term_vars, loop_vars, in_vars, rc_vars, sent, rcvd, stalled >>

\* is_render_spawned.store(false, Ordering::Relaxed); the task ends
TimerClear(i) ==
    /\ timers[i].pc = "sent"
    /\ is_render_spawned' = FALSE
    /\ timers' = Remove(timers, i)
    /\ UNCHANGED << m_pc, result, term_vars, app, shown, event, elapsed,
                    render_skipped, chan, in_vars, rc_vars, sent, rcvd, stalled >>

\* -------------------------------------------------------------- reconnector
\* The reconnector is a spawn_local task of the LocalSet that runs
\* run_single_threaded: it is polled only while that future is suspended at
\* an await of the loop, and is dropped with the LocalSet afterwards.
RcScheduled == m_pc \in {"recv", "update"}

\* (a reconnector that opens the stream whatever the probe said)
AfterProbe_open(online) == "open"
\* if !is_online().await { sleep ... } else { receive_messages() ... }
AfterProbe(online) == IF online THEN "open" ELSE "sleep"

RcProbe ==
    /\ RcScheduled
    /\ rc_pc = "probe"
    /\ \E online \in BOOLEAN :
         /\ rc_online' = online
         /\ rc_pc' = AfterProbe(online)
         /\ rc_slept' = IF AfterProbe(online) = "sleep" THEN BACKOFF_SECS ELSE 0
    /\ UNCHANGED << m_pc, result, term_vars, loop_vars, chan, timers, in_vars,
                    rc_event, rc_yielded, rc_emitted, rc_quits, msgs, sent, rcvd, stalled >>

\* tokio::time::sleep(Duration::from_secs(10)).await; continue;
RcSleep ==
    /\ RcScheduled
    /\ rc_pc = "sleep"
    /\ rc_pc' = "probe"
    /\ rc_slept' = 0
    /\ UNCHANGED << m_pc, result, term_vars, loop_vars, chan, timers, in_vars,
                    rc_online, rc_event, rc_yielded, rc_emitted, rc_quits, msgs,
                    sent, rcvd, stalled >>

\* match inner_manager.receive_messages().await { Ok(messages) => .., Err(e) => .. }
RcOpen ==
    /\ RcScheduled
    /\ rc_pc = "open"
    /\ \/ /\ rc_pc' = "stream"
          /\ rc_event' = NoEvent
       \/ /\ rc_pc' = "send_quit"
          /\ rc_event' = Ev("Quit", sent["rc"] + 1, TRUE)
    /\ rc_yielded' = 0
    /\ rc_emitted' = 0
    /\ UNCHANGED << m_pc, result, term_vars, loop_vars, chan, timers, in_vars,
                    rc_online, rc_slept, rc_quits, msgs, sent, rcvd, stalled >>

\* (a reconnector that goes round its loop again after the Quit)
AfterQuit_retry == "probe"
\* the `return` after the Quit was sent
AfterQuit == "returned"

\* inner_tx.send(Event::Quit(Some(e))).await.expect(..); return;
RcSendQuit ==
    /\ RcScheduled
    /\ rc_pc = "send_quit"
    /\ \E q \in Send(chan, rc_event) : chan' = q
    /\ sent' = Bump(sent, rc_event)
    /\ rc_quits' = rc_quits + 1
    /\ rc_event' = NoEvent
    /\ rc_pc' = AfterQuit
    /\ UNCHANGED << m_pc, result, term_vars, loop_vars, timers, in_vars, rc_online,
                    rc_slept, rc_yielded, rc_emitted, msgs, rcvd, stalled >>

\* (a reconnector that reopens the stream at once)
AfterStreamEnd_reopen == "open"
\* where the reconnector goes when messages.next() returns None: round the
\* loop, to is_online()
AfterStreamEnd == "probe"

\* while let Some(message) = messages.next().await
RcStreamNext ==
    /\ RcScheduled
    /\ rc_pc = "stream"
    /\ \/ /\ in_seen + msgs < MaxEvents
          /\ msgs' = msgs + 1
          /\ rc_yielded' = rc_yielded + 1
          /\ rc_event' = Ev("Message", sent["rc"] + 1, FALSE)
          /\ rc_pc' = "send_msg"
       \/ /\ rc_pc' = AfterStreamEnd
          /\ UNCHANGED << msgs, rc_yielded, rc_event >>
    /\ UNCHANGED << m_pc, result, term_vars, loop_vars, chan, timers, in_vars,
                    rc_online, rc_slept, rc_emitted, rc_quits, sent, rcvd, stalled >>

\* inner_tx.send(Event::Message(message)).await.expect(..)
RcSendMessage ==
    /\ RcScheduled
    /\ rc_pc = "send_msg"
    /\ \E q \in Send(chan, rc_event) : chan' = q
    /\ sent' = Bump(sent, rc_event)
    /\ rc_emitted' = rc_emitted + 1
    /\ rc_event' = NoEvent
    /\ rc_pc' = "stream"
    /\ UNCHANGED << m_pc, result, term_vars, loop_vars, timers, in_vars, rc_online,
                    rc_slept, rc_yielded, rc_quits, msgs, rcvd, stalled >>

\* --------------------------------------------------------------------- time
InLoop == m_pc \in {"check", "draw", "recv", "update"}

\* TickMs milliseconds pass; nothing is timed once the function is left
Tick ==
    /\ ~RxDropped
    /\ elapsed' = IF InLoop THEN Min(elapsed + TickMs, MaxElapsed) ELSE elapsed
    /\ timers' = [i \in DOMAIN timers |->
                    [timers[i] EXCEPT !.left = Max(@ - TickMs, 0)]]
    /\ UNCHANGED << m_pc, result, term_vars, app, shown, event, is_render_spawned,
                    render_skipped, chan, in_vars, rc_vars, sent, rcvd, stalled >>

\* ------------------------------------------------------------ specification
Startup ==
    \/ TryNew \/ EnableRawMode \/ EnterScreen \/ SpawnInput \/ TerminalNew
    \/ SpawnReconnector \/ TerminalClear

Running ==
    \/ FrameCheck \/ Draw \/ Recv \/ Update
    \/ LeaveScreen \/ ShowCursor \/ DropGuard
    \/ InputNext \/ InputSend
    \/ \E i \in DOMAIN timers : TimerSend(i)
    \/ \E i \in DOMAIN timers : TimerClear(i)
    \/ RcProbe \/ RcSleep \/ RcOpen \/ RcSendQuit \/ RcStreamNext \/ RcSendMessage
    \/ Tick

Next == Startup \/ Running

Spec == Init /\ [][Next]_vars

\* The program at the head of a loop iteration after a burst of key presses:
\* the loop has taken the first BacklogTaken of them, the adapter has sent
\* Backlog more that are still queued, and one slot of the channel is left.
\* MaxEvents counts what arrives from here on.
Backlog == CHANNEL_CAPACITY - 1
BacklogTaken == MaxReceived - 1

InitBacklog ==
    /\ m_pc = "check"
    /\ result = "none"
    /\ raw_mode = TRUE /\ alt_screen = TRUE /\ mouse_capture = TRUE
    /\ app = 1 /\ shown = 0 /\ event = NoEvent
    /\ elapsed = 0 /\ is_render_spawned = FALSE /\ render_skipped = FALSE
    /\ chan = [i \in 1..Backlog |-> Ev("Input", BacklogTaken + i, FALSE)]
    /\ timers = << >>
    /\ in_pc = "next" /\ in_event = NoEvent /\ in_seen = 0 /\ in_note = "none"
    /\ rc_pc = "probe" /\ rc_online = FALSE /\ rc_slept = 0 /\ rc_event = NoEvent
    /\ rc_yielded = 0 /\ rc_emitted = 0 /\ rc_quits = 0 /\ msgs = 0
    /\ sent = [p \in Producers |-> IF p = "input" THEN BacklogTaken + Backlog ELSE 0]
    /\ rcvd = [p \in Producers |-> IF p = "input" THEN BacklogTaken ELSE 0]
    /\ stalled = {}

SpecBacklog == InitBacklog /\ [][Running]_vars

\* The program left alone: the input source yields nothing and the
\* reconnector gets no further than probing (offline, or the connection is
\* never established), so that no Input, Resize, Click, Message or Quit event
\* is ever sent.  run_single_threaded is the main future of the runtime and
\* is polled whenever it can go on; the timer tasks are tokio::spawn tasks of
\* the multi-thread runtime and run when their sleep is over; time passes.
Idle ==
    \/ Startup
    \/ FrameCheck \/ Draw \/ Recv \/ Update
    \/ LeaveScreen \/ ShowCursor \/ DropGuard
    \/ \E i \in DOMAIN timers : TimerSend(i)
    \/ \E i \in DOMAIN timers : TimerClear(i)
    \/ RcProbe \/ RcSleep
    \/ Tick

SpecIdle ==
    /\ Init
    /\ [][Idle]_vars
    /\ WF_vars(FrameCheck) /\ WF_vars(Draw) /\ WF_vars(Recv) /\ WF_vars(Update)
    /\ WF_vars(\E i \in DOMAIN timers : TimerSend(i))
    /\ WF_vars(\E i \in DOMAIN timers : TimerClear(i))
    /\ WF_vars(Tick)

\* The frame limiter on its own: the loop at the head of an iteration, any
\* whole number of milliseconds after last_render_at, with no redraw timer,
\* or with the one timer of this window (what is left of its sleep follows
\* from the time passed), or with a timer of an earlier window whose sleep is
\* over and which has or has not yet sent its Redraw.
TimersAt(el) ==
    { << >>,
      << [pc |-> "sleep", left |-> Max(FRAME_BUDGET + 1 - el, 0)] >>,
      << [pc |-> "sleep", left |-> 0] >>,
      << [pc |-> "sent", left |-> 0] >> }

InitFrames ==
    /\ m_pc = "check"
    /\ result = "none"
    /\ raw_mode = TRUE /\ alt_screen = TRUE /\ mouse_capture = TRUE
    /\ app \in 1..MaxApp /\ shown \in 0..MaxApp /\ event = NoEvent
    /\ elapsed \in 0..MaxCheckAt
    /\ timers \in TimersAt(elapsed)
    /\ is_render_spawned = (timers # << >>)
    /\ render_skipped \in BOOLEAN
    /\ (\E i \in DOMAIN timers : timers[i].left > 0) => render_skipped
    /\ chan = << >>
    /\ in_pc = "next" /\ in_event = NoEvent /\ in_seen = 0 /\ in_note = "none"
    /\ rc_pc = "probe" /\ rc_online = FALSE /\ rc_slept = 0 /\ rc_event = NoEvent
    /\ rc_yielded = 0 /\ rc_emitted = 0 /\ rc_quits = 0 /\ msgs = 0
    /\ sent = [p \in Producers |-> 0]
    /\ rcvd = [p \in Producers |-> 0]
    /\ stalled = {}

\* from the check to the receive of the same iteration
NextFrames == FrameCheck \/ Draw

SpecFrames == InitFrames /\ [][NextFrames]_vars

\* ================================================================== claims
Finished == m_pc \in {"returned", "panicked"}

\* the events of producer p still queued, in queue order
InFlight(p) ==
    LET FromP(e) == Src(e) = p IN SelectSeq(chan, FromP)

\* C1 (as amended): while the receiver is alive, what the loop has received
\* from a producer followed by what is still queued from it is exactly what
\* that producer sent, in the order sent: the k-th event received from a
\* producer is the k-th it sent, nothing is duplicated and nothing is lost
\* from the queue.  (Events still queued when the loop exits are dropped
\* with the receiver.)
C1_PerProducerOrder ==
    \A p \in Producers :
        LET q == InFlight(p) IN
        /\ ~RxDropped => Len(q) = sent[p] - rcvd[p]
        /\ \A i \in 1..Len(q) : q[i].n = rcvd[p] + i
        /\ (m_pc = "update" /\ Src(event) = p) => event.n = rcvd[p]
        /\ rcvd[p] <= sent[p]

\* C1 witness: the loop has just received the second event of the
\* reconnector (a Message, then the Quit) after an event of the input adapter
C1_Witness ==
    /\ m_pc = "update"
    /\ event.kind = "Quit" /\ event.n = 2
    /\ rcvd["input"] = 1 /\ rcvd["rc"] = 2

\* C1 as stated: every event sent into the channel is received, so that once
\* the loop has ended and run_single_threaded has returned Ok nothing sent is
\* left unreceived
C1_AllSentReceived ==
    (m_pc = "returned" /\ result = "Ok") => \A p \in Producers : rcvd[p] = sent[p]

\* --------------------------------------------------------------------- C2
Redraw == Ev("Redraw", 0, FALSE)
InQueue(e) == \E i \in DOMAIN chan : chan[i] = e

\* one step of the channel as a producer and the consumer see it
C2_Step ==
    \* a send completes only into a free slot, and puts its event at the back
    /\ (in_pc = "send" /\ in_pc' # "send" /\ ~RxDropped)
          => ChanHasRoom(chan) /\ chan' = Append(chan, in_event)
    /\ (rc_pc \in {"send_msg", "send_quit"} /\ rc_pc' \notin {rc_pc, "dropped"})
          => ChanHasRoom(chan) /\ chan' = Append(chan, rc_event)
    /\ (~RxDropped /\ Len(timers') = Len(timers)
          /\ \E i \in DOMAIN timers : timers[i].pc = "sleep" /\ timers'[i].pc = "sent")
          => ChanHasRoom(chan) /\ chan' = Append(chan, Redraw)
    \* a suspended sender keeps its event
    /\ (in_pc = "send" /\ in_pc' = "send") => in_event' = in_event
    /\ (rc_pc \in {"send_msg", "send_quit"} /\ rc_pc' = rc_pc) => rc_event' = rc_event
    \* the queue changes only by a send at the back, by the loop taking the
    \* front, or by the receiver being dropped
    /\ chan' # chan =>
          \/ \E e \in Pending : chan' = Append(chan, e)
          \/ (m_pc = "recv" /\ chan' = Tail(chan))
          \/ RxDropped'

\* C2: the channel never holds more than 100 events; a producer whose send
\* finds it full stays suspended, keeping its event, until the loop has taken
\* an event, and its send then puts that very event into the queue: an event
\* that was suspended is queued, received or still waiting, never discarded,
\* for as long as the receiver is alive.
C2_Backpressure ==
    /\ [](Len(chan) <= CHANNEL_CAPACITY)
    /\ [][C2_Step]_vars
    /\ [](~RxDropped =>
            \A e \in stalled :
                \/ e \in Pending
                \/ InQueue(e)
                \/ e = Redraw
                \/ (Counted(e) /\ e.n <= rcvd[Src(e)]))

\* C2 witness: a Quit whose send was suspended on the full channel has been
\* put into the queue after the loop freed a slot, and the channel is full
\* again
C2_Witness ==
    /\ Len(chan) = CHANNEL_CAPACITY
    /\ \E e \in stalled : e.kind = "Quit" /\ InQueue(e)

\* --------------------------------------------------------------------- C3
\* something is under way that will put an event into the channel, or the
\* loop itself is about to run the frame limiter again
RedrawUnderWay ==
    \/ m_pc # "recv"
    \/ chan # << >>
    \/ Pending # {}
    \/ \E i \in DOMAIN timers : timers[i].pc = "sleep"

\* C3: whenever the loop has skipped a frame and not drawn since, a render
\* is on its way without any new notification or message: the loop is still
\* before its receive, or an event is queued or being sent, or a timer task
\* is still to send its Redraw.
C3_NoLostRender ==
    (InLoop /\ render_skipped) => RedrawUnderWay

\* --------------------------------------------------------------------- C4
\* C4: a draw starts only when at least one frame interval has passed since
\* the previous draw completed (last_render_at).
C4_FrameInterval ==
    m_pc = "draw" => elapsed >= FRAME_BUDGET

\* C4 witness: a second draw is starting after an earlier one completed
C4_Witness ==
    m_pc = "draw" /\ shown # 0

\* --------------------------------------------------------------------- C5
C5_Step ==
    \* the stream is opened only right after a probe that returned true
    /\ (rc_pc' = "open" /\ rc_pc # "open") => (rc_pc = "probe" /\ rc_online')
    \* a probe that returned false leads to the sleep and nowhere else
    /\ (rc_pc = "probe" /\ rc_pc' \notin {"probe", "dropped"} /\ ~rc_online')
          => (rc_pc' = "sleep" /\ rc_slept' = BACKOFF_SECS)
    \* and the sleep leads back to the probe
    /\ (rc_pc = "sleep" /\ rc_pc' \notin {"sleep", "dropped"}) => rc_pc' = "probe"

\* C5: the reconnector is about to open a message stream only if the probe
\* just made returned true; after a probe that returned false it sleeps the
\* 10 s backoff and then probes again.
C5_ProbeGate ==
    /\ [](rc_pc = "open" => rc_online)
    /\ [](rc_pc = "sleep" => (~rc_online /\ rc_slept = BACKOFF_SECS))
    /\ [][C5_Step]_vars

\* C5 witness: the probe returned false and the reconnector sleeps 10 s
\* without having opened a stream
C5_Witness ==
    rc_pc = "sleep" /\ ~rc_online /\ rc_slept = BACKOFF_SECS /\ sent["rc"] = 0

\* --------------------------------------------------------------------- C6
C6_Step ==
    \* a failed open leads to the one send of the Quit and then to the end
    /\ (rc_pc = "send_quit" /\ rc_pc' \notin {"send_quit", "dropped"})
          => (rc_pc' = "returned" /\ rc_quits' = 1
              /\ chan' = Append(chan, Ev("Quit", sent'["rc"], TRUE)))
    \* the task that has ended does nothing more
    /\ rc_pc \in {"returned", "dropped"}
          => (rc_pc' \in {"returned", "dropped"} /\ sent'["rc"] = sent["rc"]
              /\ rc_quits' = rc_quits)

\* C6: after a failed open the reconnector sends one Quit carrying the
\* error, and that is the last thing it does: no probe, no open and no event
\* of it follows.
C6_FatalOnce ==
    /\ [](rc_quits <= 1)
    /\ [](rc_pc = "send_quit" => (rc_quits = 0 /\ rc_event.kind = "Quit" /\ rc_event.err))
    /\ [](rc_pc = "returned" => rc_quits = 1)
    /\ [](\A i, j \in DOMAIN chan :
            (i < j /\ chan[i].kind = "Quit") => Src(chan[j]) # "rc")
    /\ [][C6_Step]_vars

\* C6 witness: the reconnector has ended after its Quit, which the loop then
\* received
C6_Witness ==
    rc_pc = "returned" /\ rc_quits = 1 /\ m_pc = "update" /\ event.kind = "Quit"

\* --------------------------------------------------------------------- C7
C7_Step ==
    \* each message the stream yields is sent as one Message event, next
    /\ rc_emitted' # rc_emitted /\ rc_pc' # "dropped" /\ rc_pc # "open"
          => (rc_pc = "send_msg" /\ rc_emitted' = rc_emitted + 1
              /\ chan' = Append(chan, Ev("Message", sent'["rc"], FALSE)))
    \* the end of the stream leads to the probe, with no Quit
    /\ (rc_pc = "stream" /\ rc_pc' \notin {"stream", "send_msg", "dropped"})
          => (rc_pc' = "probe" /\ rc_emitted = rc_yielded
              /\ rc_quits' = rc_quits /\ chan' = chan)

\* C7: of a stream that yields n messages and ends, exactly n Message events
\* are sent, each as it is yielded and so in the order yielded; no Quit is
\* sent, and the reconnector goes back to probing.
C7_StreamEnd ==
    /\ [](rc_pc = "stream" => rc_emitted = rc_yielded)
    /\ [](rc_pc = "send_msg" => (rc_yielded = rc_emitted + 1
                                  /\ rc_event = Ev("Message", sent["rc"] + 1, FALSE)))
    /\ [][C7_Step]_vars

\* C7 witness: a stream that yielded two messages has ended, both Message
\* events were sent, and the reconnector is probing again
C7_Witness ==
    rc_pc = "probe" /\ rc_yielded = 2 /\ rc_emitted = 2 /\ rc_quits = 0

\* --------------------------------------------------------------------- C8
\* C8: when run_single_threaded has returned from the loop or from a failed
\* clear, draw or update, the terminal is restored: raw mode off, alternate
\* screen left, mouse capture off.
C8_TerminalRestored ==
    (m_pc = "returned"
        /\ result \in {"Ok", "Err_clear", "Err_draw", "Err_update", "Err_quit"})
    => (~raw_mode /\ ~alt_screen /\ ~mouse_capture)

\* --------------------------------------------------------------------- C9
OutOfLoop == m_pc \in {"leave", "show_cursor", "drop_guard", "returned", "panicked"}

C9_Step ==
    \* the iteration that received a Quit is the last one
    /\ (m_pc = "update" /\ event.kind = "Quit" /\ m_pc' # "update")
          => /\ OutOfLoop'
             /\ event.err => (m_pc' = "drop_guard" /\ result' = "Err_quit")
    \* once out of the loop: no receive, no draw
    /\ OutOfLoop => (OutOfLoop' /\ rcvd' = rcvd /\ shown' \in {shown, 0})
    \* the error is what the function returns
    /\ (result = "Err_quit" /\ m_pc' = "returned") => result' = "Err_quit"

ProducersGone ==
    /\ in_pc = "ended"
    /\ rc_pc = "returned"
    /\ timers = << >>

\* C11: once all producers are gone the channel is closed, i.e. no Sender is
\* left while the loop is still running, so that the receive on the drained
\* queue returns the end-of-stream indication instead of staying suspended.
C11_ClosedWhenProducersGone ==
    (ProducersGone /\ InLoop) => Senders = 0

\* -------------------------------------------------------------------- C12
\* redraw timers that have still to send their Redraw
TimersToSend == {i \in DOMAIN timers : timers[i].pc = "sleep"}

\* Redraw events waiting in the channel
RedrawsQueued == {i \in DOMAIN chan : chan[i] = Redraw}

\* C12: however many frames the limiter skips in one frame window, they
\* collapse to exactly one Redraw event: whenever the loop has just skipped a
\* frame, one Redraw, no more and no less, is in the channel or still to be
\* sent by a timer.
C12_OneRedrawPerWindow ==
    [][(m_pc = "check" /\ m_pc' = "recv")
          => Cardinality(RedrawsQueued') + Cardinality(TimersToSend') = 1]_vars

\* -------------------------------------------------------------------- C13
\* C13 (times in hundredths of a millisecond): the frame interval is 6.94 ms;
\* at a check made 2 ms after the last render with no timer pending, the
\* sleep handed to the deferred redraw is at least 4.94 ms; a check made
\* 10 ms after the last render goes on to render.
C13_FrameNumbers ==
    /\ 100 * FRAME_BUDGET = (100 * 1000) \div TARGET_FPS
    /\ (m_pc = "check" /\ elapsed = 2 /\ ~is_render_spawned)
          => \A budget \in left_frame_budget(elapsed) : 100 * budget >= 494
    /\ (m_pc = "check" /\ elapsed = 10) => left_frame_budget(elapsed) = {}

\* -------------------------------------------------------------------- C15
C15_Step ==
    \* elapsed >= frame interval: on to the render, no timer scheduled
    /\ (m_pc = "check" /\ m_pc' # "check" /\ elapsed >= FRAME_BUDGET)
          => (m_pc' = "draw" /\ timers' = timers)
    \* elapsed < frame interval: no render, last_render_at untouched
    /\ (m_pc = "check" /\ m_pc' # "check" /\ elapsed < FRAME_BUDGET)
          => (m_pc' = "recv" /\ shown' = shown /\ elapsed' = elapsed)
    \* the render records the new last_render_at
    /\ (m_pc = "draw" /\ m_pc' = "recv") => (shown' = app /\ elapsed' = 0)

\* C15: at each check, whatever the time elapsed since the last render: from
\* elapsed >= frame interval, equality included, the loop goes on to render,
\* records the new timestamp and schedules no timer; from elapsed < frame
\* interval it does not render and leaves the timestamp alone.
C15_CheckDecides == [][C15_Step]_vars

\* -------------------------------------------------------------------- C14
C14_Step ==
    \* only the loop sets the flag, at a check, together with the spawn
    /\ (~is_render_spawned /\ is_render_spawned')
          => (m_pc = "check" /\ m_pc' = "recv" /\ Len(timers') = Len(timers) + 1)
    \* only a timer that has sent its Redraw clears it, as its last act
    /\ (is_render_spawned /\ ~is_render_spawned')
          => (Len(timers') = Len(timers) - 1
              /\ \E i \in DOMAIN timers : timers[i].pc = "sent"
              /\ UNCHANGED << m_pc, chan >>)
    \* a timer that ends has cleared the flag, unless its send failed
    /\ Len(timers') < Len(timers) => (~is_render_spawned' \/ RxDropped)

\* C14 (as amended): at most one redraw timer task exists at any time; while
\* the loop is running the flag is set exactly while that task exists
\* (sleeping, sending, or about to clear the flag); only the loop sets the
\* flag, when it spawns the task; only the task clears it, once, after its
\* send succeeded.  (A timer whose send fails because the loop has exited
\* ends without clearing the flag.)
C14_OneTimer ==
    /\ [](Len(timers) <= 1)
    /\ [](~RxDropped => (is_render_spawned <=> timers # << >>))
    /\ [][C14_Step]_vars

\* C14 witness: the first timer has cleared the flag and ended, and after a
\* render the loop has set the flag again for a second timer, now sleeping
C14_Witness ==
    /\ shown # 0 /\ is_render_spawned
    /\ Len(timers) = 1 /\ timers[1].pc = "sleep" /\ timers[1].left > 0

\* C14 as stated: every timer task clears the flag, exactly once, when it
\* ends
C14_EveryTimerClears ==
    [][Len(timers') < Len(timers) => ~is_render_spawned']_vars

\* -------------------------------------------------------------------- C16
C16_Step ==
    \* the event received is the one handed to update, with the current state
    /\ (m_pc = "recv" /\ m_pc' = "update")
          => (event' = ChanFront(chan) /\ app' = app)
    \* one call of update per event, and the loop does what it returned
    /\ (m_pc = "update" /\ m_pc' # "update" /\ event.kind # "Quit")
          => \E r \in update(app, event) :
               \/ r.tag = "Some" /\ m_pc' = "check" /\ app' = r.app
               \/ r.tag = "None" /\ m_pc' = "leave" /\ result' = "none"
               \/ r.tag = "Err" /\ m_pc' = "drop_guard" /\ result' = r.err
    \* the state changes only there, and it is the state that is drawn
    /\ (app' # app /\ InLoop') => m_pc = "update"
    /\ (m_pc = "draw" /\ m_pc' = "recv") => shown' = app
    \* after the break run_single_threaded returns without error
    /\ (m_pc \in {"leave", "show_cursor"} /\ m_pc' \notin {"leave", "show_cursor"})
          => (m_pc' = "drop_guard" /\ result' = "Ok")
    /\ (m_pc = "drop_guard" /\ result = "Ok" /\ m_pc' # "drop_guard")
          => (m_pc' = "returned" /\ result' = "Ok")

\* C16: every event received that is not a Quit is handed to update once,
\* with the current application state; a state that update returns is the
\* one the next iteration draws and updates; when update returns the
\* termination signal the loop breaks and run_single_threaded returns Ok.
C16_UpdateDispatch == [][C16_Step]_vars

\* -------------------------------------------------------------------- C17
\* the notifications to forward, and the event each is forwarded as
C17_Kind == [Key |-> "Input", Resize |-> "Resize", Mouse |-> "Click"]

C17_Step ==
    \* a notification read: a key press, a resize or a pointer notification
    \* is on its way as the next event of the adapter; anything else, an
    \* error included, makes no event and the adapter reads on
    /\ in_seen' = in_seen + 1
          => /\ in_pc = "next"
             /\ in_note' \in DOMAIN C17_Kind
                   => (in_pc' = "send"
                       /\ in_event' = Ev(C17_Kind[in_note'], sent["input"] + 1, FALSE))
             /\ in_note' \notin DOMAIN C17_Kind
                   => (in_pc' = "next" /\ in_event' = NoEvent
                       /\ chan' = chan /\ sent' = sent)
    \* the send, once it completes, puts that event into the channel
    /\ (in_pc = "send" /\ in_pc' = "next")
          => (chan' = Append(chan, in_event) /\ sent'["input"] = sent["input"] + 1)
    /\ (in_pc = "send" /\ in_pc' = "send")
          => (in_event' = in_event /\ in_note' = in_note)
    /\ sent'["input"] # sent["input"] => (in_pc = "send" /\ in_pc' = "next")
    \* the adapter ends only with its source, or on a send that failed
    /\ (in_pc \in {"next", "send"} /\ in_pc' \notin {"next", "send"})
          => \/ in_pc = "next" /\ in_pc' = "ended"
             \/ in_pc = "send" /\ in_pc' = "panicked" /\ RxDropped

\* C17: the adapter forwards each key press as Input, each resize as Resize
\* and each pointer notification as Click, one event for one notification,
\* in the order read (its events are numbered in that order); any other
\* notification and any error of the source makes no event and leaves the
\* adapter reading.
C17_Forwarding ==
    /\ [](in_pc = "send" => /\ in_note \in DOMAIN C17_Kind
                            /\ in_event = Ev(C17_Kind[in_note], sent["input"] + 1, FALSE))
    /\ [](sent["input"] + (IF in_pc = "send" THEN 1 ELSE 0) <= in_seen)
    /\ [][C17_Step]_vars

\* C17 witness: the adapter has read an error, made no event of it, read a
\* pointer notification next and put the Click, its first event, into the
\* channel
C17_Witness ==
    /\ in_seen = 2 /\ sent["input"] = 1 /\ in_pc = "next"
    /\ InQueue(Ev("Click", 1, FALSE))

\* -------------------------------------------------------------------- C18
C18_Step ==
    \* input adapter: the failed send is the end of the task
    /\ (in_pc = "send" /\ RxDropped /\ in_pc' # "send")
          => (in_pc' = "panicked" /\ chan' = chan /\ sent' = sent)
    /\ in_pc = "panicked" => UNCHANGED << in_vars, sent >>
    \* redraw timer: the failed send is the end of the task, the flag is left
    \* as it was
    /\ (RxDropped /\ timers' # timers)
          => \E i \in DOMAIN timers :
               /\ timers' = Remove(timers, i)
               /\ timers[i].pc = "sleep"
                     => UNCHANGED << is_render_spawned, chan >>
    \* reconnector: it makes no send once the receiver is gone
    /\ RxDropped => (rc_pc' = rc_pc /\ sent'["rc"] = sent["rc"])
    \* nothing is put into the channel once the receiver is gone
    /\ RxDropped => chan' = chan

\* C18: a send that finds the receiver gone ends the task that made it, in
\* the input adapter, the reconnector and the redraw timer alike: the event
\* is not queued, and the task sends nothing and changes nothing afterwards.
C18_SendFailureFatal ==
    /\ [][C18_Step]_vars
    /\ [](in_pc = "panicked" => (RxDropped /\ in_event = NoEvent))

\* C18 witness: after the loop has exited, the send of the input adapter has
\* failed and ended it, and the send of the redraw timer has failed and
\* ended it with the flag still set
C18_Witness ==
    RxDropped /\ in_pc = "panicked" /\ timers = << >> /\ is_render_spawned

\* -------------------------------------------------------------------- C19
\* C19: a failure to acquire the terminal (raw mode, alternate screen and
\* mouse capture) ends run_single_threaded with that error before any task
\* is spawned and before the loop; a failure to release it at shutdown is
\* passed over: it raises no panic and the result stays what it was.
C19_TerminalFailures ==
    /\ result \in {"Err_raw", "Err_enter"}
          => (OutOfLoop /\ in_pc = "none" /\ rc_pc = "none" /\ rcvd = sent)
    /\ m_pc # "panicked" /\ result # "panic"

\* -------------------------------------------------------------------- C20
C20_Step ==
    \* last_render_at is set on entering the loop, and nothing is drawn there
    /\ (m_pc = "clear" /\ m_pc' = "check") => (elapsed' = 0 /\ shown' = 0)
    \* a first check within the frame budget draws nothing: it leaves the
    \* render to a Redraw
    /\ (m_pc = "check" /\ shown = 0 /\ elapsed <= FRAME_BUDGET /\ m_pc' # "check")
          => (m_pc' = "recv" /\ shown' = 0 /\ is_render_spawned'
              /\ \E i \in DOMAIN timers' : timers'[i].pc = "sleep")
    \* nothing but a Redraw is ever received
    /\ (m_pc = "recv" /\ m_pc' = "update") => event' = Redraw

\* C20: the loop is entered with last_render_at set and nothing drawn, and a
\* first check made within the frame budget defers.  With no input and no
\* message ever arriving, the Redraw of the timer alone brings the first
\* render about: from the first check on, a render eventually completes,
\* unless update (on the Redraw) or the draw itself ends the loop.
C20_FirstRender ==
    /\ [][C20_Step]_vars
    /\ (m_pc = "check" /\ shown = 0) ~> (shown # 0 \/ OutOfLoop)

\* C20 witness: the first check deferred and spawned the timer, the loop has
\* received its Redraw (the timer has sent it and is about to clear the
\* flag) and the first render has completed, no other event having been sent
C20_Witness ==
    /\ m_pc = "recv" /\ shown # 0
    /\ Len(timers) = 1 /\ timers[1].pc = "sent" /\ chan = << >>
    /\ in_seen = 0 /\ \A p \in Producers : sent[p] = 0

====
